---- MODULE Spec2Model ----
(***************************************************************************)
(* Model of the job-processing subsystem of convertly (src/main.go): the   *)
(* job store, the bounded job queue, the worker pool (processJob), the     *)
(* periodic cleanup (cleanupOldJobs), the request handler (handleConvert)  *)
(* that waits for a worker's Result, and the download handler              *)
(* (handleDownload).                                                       *)
(*                                                                         *)
(* jobStore's lock is the variable `lock`.  A critical section is one step *)
(* (Lock, the writes, Unlock) when no other goroutine can observe a state  *)
(* inside it; the two that can be observed from outside the lock are split:*)
(* the two field writes at 730-731, which handleDownload reads without the *)
(* lock, and cleanupOldJobs, which works on files while it holds the lock. *)
(* What a goroutine does before it waits for the lock or after it released *)
(* it is a step of its own: handleConvert saves an upload (766-781) before *)
(* it registers the job (817-822), and processJob removes its input file   *)
(* and returns (699-700, 722, 733 and the deferred calls) after the Unlock.*)
(* os.Remove of the input file may fail; the code ignores its error.       *)
(*                                                                         *)
(* Two specifications run the program.  Spec puts it under every kind of   *)
(* client: MaxJobs requests of any form (conversion requests, and at most  *)
(* one download, which then takes the place of a conversion request), with *)
(* a pool of one worker or of two.  BurstSpec puts the full pool under     *)
(* load: up to MaxBurst JSON submissions from clients that stay connected, *)
(* with converters that do not end before their deadline.                  *)
(*                                                                         *)
(* Time is a discrete clock `now`; a step that waits for nothing takes no  *)
(* time, so the clock advances only while every goroutine waits (for a     *)
(* request, a job, a Result, the ticker or the external converter).  The   *)
(* durations of the source (60s, 65s, 10min, 30min) and the sizes (8       *)
(* workers, 256 queue slots) are scaled down; the scaling keeps            *)
(* ConvDeadline < CoordTimeout <= Retention, SweepInterval < Retention,    *)
(* and the fact that a job can be older than the retention before its      *)
(* conversion ends when it waits in a full queue for conversions that run  *)
(* to their deadline (source: 256 / 8 * 60s = 32min > 30min; here one      *)
(* conversion waited for and one's own, 2 + 2 > 3).                        *)
(***************************************************************************)
EXTENDS Integers, Sequences, FiniteSets

\* ---- bounds of the model ----
MaxJobs == 2          \* number of client requests in one run of Spec:
                      \* conversions, and one download in place of a conversion
MaxBurst == 4         \* number of submissions in one run of BurstSpec
MaxTime == 5          \* the clock stops here

\* ---- program constants (sizes and durations, scaled) ----
NumWorkers == 2       \* startWorkers: for i := 0; i < 8; i++
QueueCap == 1         \* make(chan Job, 256)
ConvDeadline == 2     \* 60 * time.Second
CoordTimeout == 3     \* 65 * time.Second
SweepInterval == 2    \* 10 * time.Minute
Retention == 3        \* 30 * time.Minute
ResultChanCap == 1    \* make(chan Result, 1)

Ids == 1..(IF MaxJobs > MaxBurst THEN MaxJobs ELSE MaxBurst)
Workers == 1..NumWorkers

StatusQueued == "queued"
StatusProcessing == "processing"
StatusDone == "done"
StatusFailed == "failed"

NoEntry == [Status |-> "absent"]     \* jobStore.jobs has no key (nil *JobEntry)
NoJob == [ID |-> 0]

\* jobStore.RWMutex: who holds the write lock
Free == <<>>
BySweep == <<"cleanupOldJobs">>
ByWorker(w) == <<"processJob", w>>
NoPath == 0                          \* the empty string as OutputPath

\* outputFormats (145-153), reduced to the one format processJob treats
\* specially; every other format of the catalog is converted as any format is
OutputCatalog == {"pdf"}

\* the non-empty values a request can give as its target format: those of the
\* catalog and one that is not in it
Formats == OutputCatalog \cup {"nosuchformat"}
Job(id, isFile, toFmt) == [ID |-> id, IsFile |-> isFile, ToFmt |-> toFmt]

\* filepath.Join(os.TempDir(), "pandoc_output_"+job.ID+outExt): one path per job id
OutputPathOf(job) == job.ID

VARIABLES
    now,         \* time.Now(), in ticks
    nextSweep,   \* the time of the cleanup ticker's next tick
    crashed,     \* a worker goroutine panicked: the process is gone
    pool,        \* the workers startWorkers has started
    store,       \* jobStore.jobs: id -> entry or NoEntry
    queue,       \* jobQueue: sequence of Job records
    resultChan,  \* job.ResultChan of each job: sequence of Results
    hpc,         \* handleConvert of request id: position / response given
    hjob,        \* handleConvert's local job
    hdeadline,   \* deadline of handleConvert's ctx
    wpc,         \* worker goroutine: position in the loop / processJob
    wjob,        \* processJob's job
    wdeadline,   \* deadline of processJob's ctx
    inFile,      \* ids whose temporary input file exists on disk
    outFile,     \* output paths that exist on disk
    returned,    \* ids of the jobs whose processJob call has returned
    rmFailed,    \* output paths whose os.Remove in cleanupOldJobs failed
    rejectedFull, \* queue lengths seen by the rejected enqueue attempts
    lock,        \* jobStore.RWMutex: Free, BySweep or ByWorker(w)
    dpc,         \* handleDownload: position / response given
    dj,          \* handleDownload's jobID
    dentry       \* the *JobEntry handleDownload holds, once the map has lost it

dvars == <<dpc, dj, dentry>>

vars == <<now, nextSweep, crashed, pool, store, queue, resultChan, hpc, hjob, hdeadline,
          wpc, wjob, wdeadline, inFile, outFile, returned, rmFailed, rejectedFull,
          lock, dpc, dj, dentry>>

\* the state after main has started n workers (589-598) and the cleanup
\* ticker (600-608)
InitPool(n) ==
    /\ now = 0
    /\ nextSweep = SweepInterval
    /\ crashed = FALSE
    /\ pool = 1..n
    /\ store = [j \in Ids |-> NoEntry]
    /\ queue = <<>>
    /\ resultChan = [j \in Ids |-> <<>>]
    /\ hpc = [j \in Ids |-> "new"]
    /\ hjob = [j \in Ids |-> NoJob]
    /\ hdeadline = [j \in Ids |-> 0]
    /\ wpc = [w \in Workers |-> "idle"]
    /\ wjob = [w \in Workers |-> NoJob]
    /\ wdeadline = [w \in Workers |-> 0]
    /\ inFile = {}
    /\ outFile = {}
    /\ returned = {}
    /\ rmFailed = {}
    /\ rejectedFull = {}
    /\ lock = Free
    /\ dpc = "idle"
    /\ dj = 0
    /\ dentry = NoEntry

\* the pool is scaled to one worker (two jobs then make one wait in the
\* queue) and to two (workers run side by side)
Init == \E n \in 1..NumWorkers : InitPool(n)

\* the requests the clients have sent so far: one per identifier handed out
\* by handleConvert, and the call of handleDownload
RequestsMade ==
    Cardinality({j \in Ids : hpc[j] # "new"}) + (IF dpc = "idle" THEN 0 ELSE 1)

\* a client sends one more request (to the handlers registered in main)
Arrives == RequestsMade < MaxJobs

\* one more submission of a burst arrives
BurstArrives == RequestsMade < MaxBurst

\* ---- JobEntry values and updates ----
NewEntry(t) ==
    [Status |-> StatusQueued, OutputPath |-> NoPath, Error |-> "", CreatedAt |-> t]

\* variant: the worker forgets to mark the entry Processing
SetProcessingSkipped(e) == e

SetProcessing(e) == [e EXCEPT !.Status = StatusProcessing]

\* jobStore.jobs[job.ID].Status = StatusDone (730)
SetDone(e) == [e EXCEPT !.Status = StatusDone]

\* jobStore.jobs[job.ID].OutputPath = outputPath (731)
SetOutputPath(e, path) == [e EXCEPT !.OutputPath = path]

SetFailed(e, msg) == [e EXCEPT !.Status = StatusFailed, !.Error = msg]

\* variant: only finished jobs are cleaned up
ExpiredFinishedOnly(e, t) ==
    t - e.CreatedAt > Retention /\ e.Status \in {StatusDone, StatusFailed}

\* variant: the age limit is checked against the wrong duration
ExpiredTooLate(e, t) == t - e.CreatedAt > Retention + SweepInterval

\* variant: an entry exactly as old as the retention is removed as well
ExpiredAtRetention(e, t) == t - e.CreatedAt >= Retention

\* now.Sub(entry.CreatedAt) > 30*time.Minute
Expired(e, t) == t - e.CreatedAt > Retention

\* select { case jobQueue <- job: ... default: ... }: the send succeeds iff there is room
QueueHasRoom(q) == Len(q) < QueueCap

\* variant: the job is queued even when the caller is told the queue is full
OfferAlwaysQueues(q, job) == [ok |-> QueueHasRoom(q), q |-> Append(q, job)]

\* select { case jobQueue <- job: default: }: the queue afterwards, and whether
\* the send case was taken
Offer(q, job) ==
    IF QueueHasRoom(q) THEN [ok |-> TRUE, q |-> Append(q, job)]
                       ELSE [ok |-> FALSE, q |-> q]

\* variant: the result channel is unbuffered, make(chan Result)
CanSendUnbuffered(ch) == Len(ch) < ResultChanCap - 1

\* a send on job.ResultChan can proceed iff the buffer has room
CanSend(ch) == Len(ch) < ResultChanCap

\* 692: the error of a pdf job when no LaTeX engine is found
PdfEngineError == "PDF conversion requires a LaTeX engine"

OkResult(path) == [Err |-> "", OutputPath |-> path]
ErrResult(msg) == [Err |-> msg, OutputPath |-> NoPath]

\* ---- handleConvert (src/main.go 736-860) ----

\* the requests handleConvert can get, by what its checks look at.  A field
\* that no check reaches for a request keeps one value there: nothing but the
\* method of a request that is not a POST, the form of a JSON request and the
\* body of a multipart one, what follows a form that does not parse, a
\* missing file part, a failed save or a body that does not decode.
Requests ==
    {req \in [method : {"POST", "GET"}, multipart : BOOLEAN, parseOk : BOOLEAN,
              hasFile : BOOLEAN, save : {"ok", "createFails", "copyFails"},
              jsonOk : BOOLEAN, from : {"", "markdown"}, to : {""} \cup Formats] :
        LET formRead == req.method = "POST" /\ req.multipart
            bodyRead == req.method = "POST" /\ ~req.multipart
            fileRead == formRead /\ req.parseOk
            saveDone == fileRead /\ req.hasFile
            formatsRead == \/ saveDone /\ req.save = "ok"
                           \/ bodyRead /\ req.jsonOk
        IN  /\ req.method # "POST" => ~req.multipart
            /\ ~formRead => req.parseOk
            /\ ~fileRead => req.hasFile
            /\ ~saveDone => req.save = "ok"
            /\ ~bodyRead => req.jsonOk
            /\ ~formatsRead => req.from = "markdown" /\ req.to = "pdf"}

\* 764-776: the 500 answer of an upload whose file could not be saved
\* (os.CreateTemp or io.Copy failed), or "" when there was nothing to save or
\* the save worked; the save comes after the form and the file part were
\* found and before the formats are looked at.
SaveError(req) ==
    IF req.method = "POST" /\ req.multipart /\ req.parseOk /\ req.hasFile
    THEN IF req.save = "createFails" THEN "Failed to create temp file"
         ELSE IF req.save = "copyFails" THEN "Failed to save file"
         ELSE ""
    ELSE ""

\* 737-814: the checks of handleConvert in their order; the message of the
\* 4xx answer, or "" when the request gets none: it passes, or the save of its
\* upload fails first (SaveError).  An upload without "from" gets its format
\* from the file name (784-790), so only "to" can be missing there.
ClientError(req) ==
    IF req.method # "POST" THEN "Method not allowed"
    ELSE IF req.multipart
    THEN IF ~req.parseOk THEN "Failed to parse form"
         ELSE IF ~req.hasFile THEN "No file provided"
         ELSE IF SaveError(req) # "" THEN ""
         ELSE IF req.to = "" THEN "Missing format specification"
         ELSE ""
    ELSE IF ~req.jsonOk THEN "Invalid JSON"
         ELSE IF req.from = "" \/ req.to = "" THEN "Missing format specification"
         ELSE ""

\* 764-779: an upload that got as far as the format check has been saved to a
\* temporary file
UploadSaved(req) ==
    req.method = "POST" /\ req.multipart /\ req.parseOk /\ req.hasFile
       /\ req.save = "ok"

\* 745: uuid.New() draws 122 random bits.  The model takes every draw to be
\* an identifier no earlier request got (the next unused one): that two draws
\* never collide is assumed here, not derived from the code, which never
\* looks whether jobStore.jobs already has the key.
FreshId(j) == hpc[j] = "new" /\ \A i \in Ids : i < j => hpc[i] # "new"

\* variant: the entry is registered before the request is checked
RejectRegisters(j, req) ==
    /\ ~crashed
    /\ FreshId(j)
    /\ ClientError(req) # ""
    /\ lock = Free
    /\ hpc' = [hpc EXCEPT ![j] = "resp4xx"]
    /\ store' = [store EXCEPT ![j] = NewEntry(now)]
    /\ inFile' = IF UploadSaved(req) THEN inFile \cup {j} ELSE inFile
    /\ UNCHANGED <<now, nextSweep, crashed, pool, queue, resultChan, hjob, hdeadline,
                   wpc, wjob, wdeadline, outFile, returned, rmFailed, rejectedFull,
                   lock, dvars>>

\* 737-814: a request with a client input error is answered 4xx and the
\* handler returns; the temporary file of an upload that was saved stays
Reject(j, req) ==
    /\ ~crashed
    /\ FreshId(j)
    /\ ClientError(req) # ""
    /\ hpc' = [hpc EXCEPT ![j] = "resp4xx"]
    /\ inFile' = IF UploadSaved(req) THEN inFile \cup {j} ELSE inFile
    /\ UNCHANGED <<now, nextSweep, crashed, pool, store, queue, resultChan, hjob,
                   hdeadline, wpc, wjob, wdeadline, outFile, returned, rmFailed,
                   rejectedFull, lock, dvars>>

\* 764-776: the upload cannot be saved: the handler answers 500 and returns
\* before anything is registered; when io.Copy failed the temporary file has
\* been created and stays (only tmpFile.Close is deferred).
FailSave(j, req) ==
    /\ ~crashed
    /\ FreshId(j)
    /\ SaveError(req) # ""
    /\ hpc' = [hpc EXCEPT ![j] = "resp500"]
    /\ inFile' = IF req.save = "copyFails" THEN inFile \cup {j} ELSE inFile
    /\ UNCHANGED <<now, nextSweep, crashed, pool, store, queue, resultChan, hjob,
                   hdeadline, wpc, wjob, wdeadline, outFile, returned, rmFailed,
                   rejectedFull, lock, dvars>>

\* 736-822 for a JSON request that passes the checks: the job gets a fresh
\* uuid and the Queued entry is registered under Lock (nothing the handler
\* does before the Lock is visible to another goroutine).
Register(j, req) ==
    /\ ~crashed
    /\ FreshId(j)
    /\ ~req.multipart
    /\ ClientError(req) = ""
    /\ lock = Free
    /\ hjob' = [hjob EXCEPT ![j] = Job(j, FALSE, req.to)]
    /\ store' = [store EXCEPT ![j] = NewEntry(now)]
    /\ hpc' = [hpc EXCEPT ![j] = "registered"]
    /\ UNCHANGED <<now, nextSweep, crashed, pool, queue, resultChan, hdeadline, wpc, wjob,
                   wdeadline, inFile, outFile, returned, rmFailed, rejectedFull,
                   lock, dvars>>

\* 745-814 for an upload that passes the checks: the job gets a fresh uuid
\* and the file is saved to a temporary file; the handler goes on to
\* jobStore.Lock() at 817, where it may have to wait
SaveUpload(j, req) ==
    /\ ~crashed
    /\ FreshId(j)
    /\ req.multipart
    /\ ClientError(req) = ""
    /\ SaveError(req) = ""
    /\ hjob' = [hjob EXCEPT ![j] = Job(j, TRUE, req.to)]
    /\ inFile' = inFile \cup {j}
    /\ hpc' = [hpc EXCEPT ![j] = "saved"]
    /\ UNCHANGED <<now, nextSweep, crashed, pool, store, queue, resultChan, hdeadline,
                   wpc, wjob, wdeadline, outFile, returned, rmFailed, rejectedFull,
                   lock, dvars>>

\* 817-822: the Queued entry of a saved upload is registered under Lock
RegisterUpload(j) ==
    /\ ~crashed
    /\ hpc[j] = "saved"
    /\ lock = Free
    /\ store' = [store EXCEPT ![j] = NewEntry(now)]
    /\ hpc' = [hpc EXCEPT ![j] = "registered"]
    /\ UNCHANGED <<now, nextSweep, crashed, pool, queue, resultChan, hjob, hdeadline,
                   wpc, wjob, wdeadline, inFile, outFile, returned, rmFailed,
                   rejectedFull, lock, dvars>>

\* variant: a blocking send, jobQueue <- job without the default case
EnqueueBlocking(j) ==
    /\ ~crashed
    /\ hpc[j] = "registered"
    /\ QueueHasRoom(queue)
    /\ queue' = Offer(queue, hjob[j]).q
    /\ IF Offer(queue, hjob[j]).ok
       THEN /\ hpc' = [hpc EXCEPT ![j] = "waiting"]
            /\ hdeadline' = [hdeadline EXCEPT ![j] = now + CoordTimeout]
            /\ UNCHANGED rejectedFull
       ELSE /\ hpc' = [hpc EXCEPT ![j] = "resp503"]
            /\ rejectedFull' = rejectedFull \cup {Len(queue)}
            /\ UNCHANGED hdeadline
    /\ hjob' = [hjob EXCEPT ![j] = NoJob]
    /\ UNCHANGED <<now, nextSweep, crashed, pool, store, resultChan, wpc, wjob,
                   wdeadline, inFile, outFile, returned, rmFailed, lock, dvars>>

\* 824-834: non-blocking send on jobQueue; on success the 65s wait begins,
\* otherwise 503 "Queue full, try again later".
Enqueue(j) ==
    /\ ~crashed
    /\ hpc[j] = "registered"
    /\ queue' = Offer(queue, hjob[j]).q
    /\ IF Offer(queue, hjob[j]).ok
       THEN /\ hpc' = [hpc EXCEPT ![j] = "waiting"]
            /\ hdeadline' = [hdeadline EXCEPT ![j] = now + CoordTimeout]
            /\ UNCHANGED rejectedFull
       ELSE /\ hpc' = [hpc EXCEPT ![j] = "resp503"]
            /\ rejectedFull' = rejectedFull \cup {Len(queue)}
            /\ UNCHANGED hdeadline
    /\ hjob' = [hjob EXCEPT ![j] = NoJob]
    /\ UNCHANGED <<now, nextSweep, crashed, pool, store, resultChan, wpc, wjob,
                   wdeadline, inFile, outFile, returned, rmFailed, lock, dvars>>

\* variant: the error of the Result is not looked at
AnswerIgnoresErr(result) == "respDone"

\* 838-851: the answer for a Result: {error, job_id} or {job_id, status: done}
Answer(result) == IF result.Err # "" THEN "respError" ELSE "respDone"

\* 837-851: case result := <-job.ResultChan
Receive(j) ==
    /\ ~crashed
    /\ hpc[j] = "waiting"
    /\ resultChan[j] # <<>>
    /\ hpc' = [hpc EXCEPT ![j] = Answer(Head(resultChan[j]))]
    /\ resultChan' = [resultChan EXCEPT ![j] = Tail(resultChan[j])]
    /\ hdeadline' = [hdeadline EXCEPT ![j] = 0]
    /\ UNCHANGED <<now, nextSweep, crashed, pool, store, queue, hjob, wpc, wjob,
                   wdeadline, inFile, outFile, returned, rmFailed, rejectedFull,
                   lock, dvars>>

\* variant: giving up also marks the job Failed in the store
GiveUpFailsJob(j, resp) ==
    /\ hpc' = [hpc EXCEPT ![j] = resp]
    /\ hdeadline' = [hdeadline EXCEPT ![j] = 0]
    /\ store' = [store EXCEPT ![j] =
                    IF @ = NoEntry THEN @ ELSE SetFailed(@, "Conversion timeout")]
    /\ UNCHANGED <<now, nextSweep, crashed, pool, queue, resultChan, hjob,
                   wpc, wjob, wdeadline, inFile, outFile, returned, rmFailed,
                   rejectedFull, lock, dvars>>

\* what the case <-ctx.Done() branch (853-859) does: it only writes the response
\* (and the deferred cancel() releases ctx)
GiveUp(j, resp) ==
    /\ hpc' = [hpc EXCEPT ![j] = resp]
    /\ hdeadline' = [hdeadline EXCEPT ![j] = 0]
    /\ UNCHANGED <<now, nextSweep, crashed, pool, store, queue, resultChan, hjob,
                   wpc, wjob, wdeadline, inFile, outFile, returned, rmFailed,
                   rejectedFull, lock, dvars>>

\* variant: the timeout answer is given before the deadline
TimeoutAnyTime(j) ==
    /\ ~crashed
    /\ hpc[j] = "waiting"
    /\ GiveUp(j, "respTimeout")

\* 853-859: ctx.Done() because the 65s deadline passed
Timeout(j) ==
    /\ ~crashed
    /\ hpc[j] = "waiting"
    /\ now >= hdeadline[j]
    /\ GiveUp(j, "respTimeout")

\* 853-859: ctx.Done() because the request's own context was cancelled
Cancel(j) ==
    /\ ~crashed
    /\ hpc[j] = "waiting"
    /\ GiveUp(j, "respCancel")

\* ---- the worker loop (589-598) and processJob (628-733) ----

\* the deferred calls of processJob run, and the call returns to the loop
Return(w) ==
    /\ wpc' = [wpc EXCEPT ![w] = "idle"]
    /\ wjob' = [wjob EXCEPT ![w] = NoJob]
    /\ wdeadline' = [wdeadline EXCEPT ![w] = 0]
    /\ returned' = returned \cup {wjob[w].ID}

\* job.ResultChan <- result
Send(w, result) ==
    /\ CanSend(resultChan[wjob[w].ID])
    /\ resultChan' = [resultChan EXCEPT ![wjob[w].ID] = Append(@, result)]

\* a write through jobStore.jobs[job.ID] when the key is missing: nil pointer
\* dereference in a goroutine without recover; the deferred calls run, then
\* the process exits
Panic(w, filesLeft) ==
    /\ crashed' = TRUE
    /\ inFile' = filesLeft
    /\ UNCHANGED <<now, nextSweep, pool, store, queue, resultChan, hpc, hjob, hdeadline,
                   wpc, wjob, wdeadline, outFile, returned, rmFailed, rejectedFull,
                   lock, dvars>>

\* os.Remove(inputPath), whose error the code ignores: the sets of input
\* files that can be left, the file of job id removed or (os.Remove failed)
\* still there
RemoveOutcomes(id) == {inFile \ {id}, inFile}

\* 593-594, 629: for job := range jobQueue { processJob(job) }; ctx gets its 60s
Dequeue(w) ==
    /\ ~crashed
    /\ w \in pool
    /\ wpc[w] = "idle"
    /\ queue # <<>>
    /\ wjob' = [wjob EXCEPT ![w] = Head(queue)]
    /\ queue' = Tail(queue)
    /\ wpc' = [wpc EXCEPT ![w] = "start"]
    /\ wdeadline' = [wdeadline EXCEPT ![w] = now + ConvDeadline]
    /\ UNCHANGED <<now, nextSweep, crashed, pool, store, resultChan, hpc, hjob, hdeadline,
                   inFile, outFile, returned, rmFailed, rejectedFull, lock, dvars>>

\* 632-635: jobStore.jobs[job.ID].Status = StatusProcessing
MarkProcessing(w) ==
    /\ ~crashed
    /\ wpc[w] = "start"
    /\ lock = Free
    /\ LET id == wjob[w].ID IN
       IF store[id] = NoEntry
       THEN Panic(w, inFile)
       ELSE /\ store' = [store EXCEPT ![id] = SetProcessing(store[id])]
            /\ wpc' = [wpc EXCEPT ![w] = "prepare"]
            /\ UNCHANGED <<now, nextSweep, crashed, pool, queue, resultChan, hpc, hjob,
                           hdeadline, wjob, wdeadline, inFile, outFile, returned,
                           rmFailed, rejectedFull, lock, dvars>>

\* 637-707: the input file is taken over or materialized (CreateTemp and
\* WriteString may fail: Result with error, return); for pdf a LaTeX engine is
\* looked up (none found: Result with error, then the store update at 695).
Prepare(w) ==
    /\ ~crashed
    /\ wpc[w] = "prepare"
    /\ LET job == wjob[w] IN
       \E createOk \in BOOLEAN, writeOk \in BOOLEAN, engineFound \in BOOLEAN :
          /\ job.IsFile => createOk /\ writeOk
          /\ ~createOk => writeOk
          /\ ~(createOk /\ writeOk) => engineFound
          /\ job.ToFmt # "pdf" => engineFound
          /\ IF ~createOk
             THEN /\ Send(w, ErrResult("failed to create temp file"))
                  /\ Return(w)
                  /\ UNCHANGED inFile
             ELSE IF ~writeOk
             THEN /\ Send(w, ErrResult("failed to write content"))
                  /\ Return(w)
                  /\ inFile' = inFile \cup {job.ID}
             ELSE IF ~engineFound
             THEN /\ Send(w, ErrResult(PdfEngineError))
                  /\ wpc' = [wpc EXCEPT ![w] = "pdfFailed"]
                  /\ inFile' = inFile \cup {job.ID}
                  /\ UNCHANGED <<wjob, wdeadline, returned>>
             ELSE /\ wpc' = [wpc EXCEPT ![w] = "running"]
                  /\ inFile' = inFile \cup {job.ID}
                  /\ UNCHANGED <<wjob, wdeadline, returned, resultChan>>
    /\ UNCHANGED <<now, nextSweep, crashed, pool, store, queue, hpc, hjob, hdeadline,
                   outFile, rmFailed, rejectedFull, lock, dvars>>

\* variant: the function returns without the store update
MarkPdfFailedNoUpdate(w) ==
    /\ ~crashed
    /\ wpc[w] = "pdfFailed"
    /\ wpc' = [wpc EXCEPT ![w] = "returning"]
    /\ UNCHANGED <<now, nextSweep, crashed, pool, store, queue, resultChan, hpc, hjob,
                   hdeadline, wjob, wdeadline, inFile, outFile, returned, rmFailed,
                   rejectedFull, lock, dvars>>

\* 695-698: Lock; the entry becomes Failed; Unlock
MarkPdfFailed(w) ==
    /\ ~crashed
    /\ wpc[w] = "pdfFailed"
    /\ lock = Free
    /\ LET id == wjob[w].ID IN
       IF store[id] = NoEntry
       THEN \E left \in RemoveOutcomes(id) : Panic(w, left)
       ELSE /\ store' = [store EXCEPT ![id] =
                            SetFailed(store[id], PdfEngineError)]
            /\ wpc' = [wpc EXCEPT ![w] = "returning"]
            /\ UNCHANGED <<now, nextSweep, crashed, pool, queue, resultChan, hpc, hjob,
                           hdeadline, wjob, wdeadline, inFile, outFile, returned,
                           rmFailed, rejectedFull, lock, dvars>>

\* 709, 713: exec.CommandContext(ctx, ...) kills the converter when ctx's
\* deadline passes, so it can end successfully only before that
ConverterCanFinish(w) == now < wdeadline[w]

\* 709-726: cmd.Run() under ctx.  It succeeds only before the deadline and
\* leaves the output file; otherwise (non-zero exit, killed at the deadline)
\* it fails.  Either way the Result is sent before the store is updated.
Run(w) ==
    /\ ~crashed
    /\ wpc[w] = "running"
    /\ \E ok \in BOOLEAN :
          /\ ok => ConverterCanFinish(w)
          /\ IF ok
             THEN /\ outFile' = outFile \cup {OutputPathOf(wjob[w])}
                  /\ Send(w, OkResult(OutputPathOf(wjob[w])))
                  /\ wpc' = [wpc EXCEPT ![w] = "succeeded"]
             ELSE /\ Send(w, ErrResult("pandoc failed"))
                  /\ wpc' = [wpc EXCEPT ![w] = "failed"]
                  /\ UNCHANGED outFile
    /\ UNCHANGED <<now, nextSweep, crashed, pool, store, queue, hpc, hjob, hdeadline, wjob,
                   wdeadline, inFile, returned, rmFailed, rejectedFull, lock, dvars>>

\* 717-721: Lock; the entry becomes Failed; Unlock
MarkFailed(w) ==
    /\ ~crashed
    /\ wpc[w] = "failed"
    /\ lock = Free
    /\ LET id == wjob[w].ID IN
       IF store[id] = NoEntry
       THEN \E left \in RemoveOutcomes(id) : Panic(w, left)
       ELSE /\ store' = [store EXCEPT ![id] = SetFailed(store[id], "pandoc failed")]
            /\ wpc' = [wpc EXCEPT ![w] = "returning"]
            /\ UNCHANGED <<now, nextSweep, crashed, pool, queue, resultChan, hpc, hjob,
                           hdeadline, wjob, wdeadline, inFile, outFile, returned,
                           rmFailed, rejectedFull, lock, dvars>>

\* 729-730: Lock; the entry's Status becomes Done
MarkDone(w) ==
    /\ ~crashed
    /\ wpc[w] = "succeeded"
    /\ lock = Free
    /\ LET id == wjob[w].ID IN
       IF store[id] = NoEntry
       THEN \E left \in RemoveOutcomes(id) : Panic(w, left)
       ELSE /\ store' = [store EXCEPT ![id] = SetDone(store[id])]
            /\ lock' = ByWorker(w)
            /\ wpc' = [wpc EXCEPT ![w] = "doneStatus"]
            /\ UNCHANGED <<now, nextSweep, crashed, pool, queue, resultChan, hpc, hjob,
                           hdeadline, wjob, wdeadline, inFile, outFile, returned,
                           rmFailed, rejectedFull, dvars>>

\* 731-732: the entry gets its OutputPath; Unlock
MarkDonePath(w) ==
    /\ ~crashed
    /\ wpc[w] = "doneStatus"
    /\ lock = ByWorker(w)
    /\ LET id == wjob[w].ID IN
       store' = [store EXCEPT ![id] = SetOutputPath(store[id], OutputPathOf(wjob[w]))]
    /\ lock' = Free
    /\ wpc' = [wpc EXCEPT ![w] = "returning"]
    /\ UNCHANGED <<now, nextSweep, crashed, pool, queue, resultChan, hpc, hjob,
                   hdeadline, wjob, wdeadline, inFile, outFile, returned, rmFailed,
                   rejectedFull, dvars>>

\* 699-700, 722, 733 with the deferred calls (643, 661): after the store
\* update and the Unlock, os.Remove(inputPath) runs (its error is ignored) and
\* processJob returns to the loop
RemoveInput(w) ==
    /\ ~crashed
    /\ wpc[w] = "returning"
    /\ \E left \in RemoveOutcomes(wjob[w].ID) : inFile' = left
    /\ Return(w)
    /\ UNCHANGED <<now, nextSweep, crashed, pool, store, queue, resultChan, hpc, hjob,
                   hdeadline, outFile, rmFailed, rejectedFull, lock, dvars>>

\* ---- cleanup (600-625) ----

\* the ids cleanupOldJobs deletes when it reads the clock at t
ExpiredIds(t) == {j \in Ids : store[j] # NoEntry /\ Expired(store[j], t)}

\* the output paths cleanupOldJobs calls os.Remove on (619-620)
RemovePaths(t) == {store[j].OutputPath : j \in ExpiredIds(t)} \ {NoPath}

\* 604-605, 612-615: on a tick of the ticker cleanupOldJobs takes the Lock and
\* reads the clock
SweepLock ==
    /\ ~crashed
    /\ now >= nextSweep
    /\ lock = Free
    /\ lock' = BySweep
    /\ UNCHANGED <<now, nextSweep, crashed, pool, store, queue, resultChan, hpc, hjob,
                   hdeadline, wpc, wjob, wdeadline, inFile, outFile, returned,
                   rmFailed, rejectedFull, dvars>>

\* 616-625: still holding the Lock, every expired entry is deleted after
\* os.Remove of its output path (the error is ignored); Unlock; the ticker's
\* next tick is one interval later.  An entry handleDownload holds a pointer
\* to lives on outside the map.
Sweep ==
    /\ ~crashed
    /\ lock = BySweep
    /\ nextSweep' = nextSweep + SweepInterval
    /\ LET gone == ExpiredIds(now)
           paths == RemovePaths(now)
       IN  /\ store' = [j \in Ids |-> IF j \in gone THEN NoEntry ELSE store[j]]
           /\ \E failing \in SUBSET (paths \cap outFile) :
                 /\ outFile' = outFile \ (paths \ failing)
                 /\ rmFailed' = rmFailed \cup failing
           /\ dentry' = IF dpc = "lookedUp" /\ dj \in gone THEN store[dj] ELSE dentry
    /\ lock' = Free
    /\ UNCHANGED <<now, crashed, pool, queue, resultChan, hpc, hjob, hdeadline, wpc, wjob,
                   wdeadline, inFile, returned, rejectedFull, dpc, dj>>

\* ---- handleDownload (863-922) ----

\* variant: the status of the entry is not checked
ServeResponseAnyStatus(e, files) ==
    IF e.OutputPath = NoPath THEN "Output file not available"
    ELSE IF e.OutputPath \notin files THEN "Failed to read file"
    ELSE "file"

\* 884-919: the answer for the entry found, given the files on disk
ServeResponse(e, files) ==
    IF e.Status # StatusDone THEN "Job not complete"
    ELSE IF e.OutputPath = NoPath THEN "Output file not available"
    ELSE IF e.OutputPath \notin files THEN "Failed to read file"
    ELSE "file"

\* the ids a client can ask for: those handleConvert told it (every answer
\* after the enqueue carries job_id; the 4xx and 503 answers do not)
ToldToClient == {j \in Ids : hpc[j] \in {"respDone", "respError", "respTimeout",
                                          "respCancel"}}

\* 875-882: RLock, the map lookup, RUnlock; 404 when the id has no entry
DownloadLookup(j) ==
    /\ ~crashed
    /\ dpc = "idle"
    /\ j \in ToldToClient
    /\ lock = Free
    /\ dj' = j
    /\ dpc' = IF store[j] = NoEntry THEN "Job not found" ELSE "lookedUp"
    /\ dentry' = NoEntry
    /\ UNCHANGED <<now, nextSweep, crashed, pool, store, queue, resultChan, hpc, hjob,
                   hdeadline, wpc, wjob, wdeadline, inFile, outFile, returned,
                   rmFailed, rejectedFull, lock>>

\* the *JobEntry handleDownload got from the map: the fields are read through
\* the pointer, so they are the current ones
DownloadEntry == IF store[dj] # NoEntry THEN store[dj] ELSE dentry

\* a worker is inside the critical section 729-732 for the entry handleDownload
\* reads: the read of OutputPath (889) races with the write at 731
PathRace == \E w \in Workers : lock = ByWorker(w) /\ wjob[w].ID = dj

\* 884-919: the fields of the entry and the file are read without the lock.
\* Status and OutputPath are read in this order, Status Done is never
\* overwritten and a non-empty OutputPath never changes, so reading them in
\* one step gives every answer separate reads can give.  A read of Status
\* that races with a write sees the old or the new string or a mix of the two
\* string words, and a mix never compares equal to "done"; a read of
\* OutputPath that races with the write at 731 sees "" or a mix (a length
\* without its data pointer), with which os.ReadFile panics and net/http
\* aborts the response.
DownloadServe ==
    /\ ~crashed
    /\ dpc = "lookedUp"
    /\ \/ dpc' = ServeResponse(DownloadEntry, outFile)
       \/ PathRace /\ dpc' = "aborted"
    /\ dentry' = NoEntry
    /\ UNCHANGED <<now, nextSweep, crashed, pool, store, queue, resultChan, hpc, hjob,
                   hdeadline, wpc, wjob, wdeadline, inFile, outFile, returned,
                   rmFailed, rejectedFull, lock, dj>>

\* ---- time ----

\* A step that waits for nothing is pending: a send attempt on the queue, a
\* receive from a non-empty queue or result channel, a store update, the
\* preparation of a conversion.
Pending ==
    \/ \E j \in Ids : hpc[j] \in {"saved", "registered"}
    \/ \E j \in Ids : hpc[j] = "waiting" /\ resultChan[j] # <<>>
    \/ \E w \in pool : wpc[w] = "idle" /\ queue # <<>>
    \/ \E w \in Workers : wpc[w] \in {"start", "prepare", "pdfFailed", "succeeded",
                                       "failed", "doneStatus", "returning"}
    \/ lock # Free
    \/ dpc = "lookedUp"

\* The clock advances only when every goroutine is waiting (for a request, a
\* job, a Result, the ticker or the external converter) and nothing is due:
\* the cleanup ticker, the ctx of a waiting handleConvert, the ctx of a
\* running conversion.
Tick ==
    /\ ~crashed
    /\ ~Pending
    /\ now < MaxTime
    /\ now < nextSweep
    /\ \A j \in Ids : hpc[j] = "waiting" => now < hdeadline[j]
    /\ \A w \in Workers : wpc[w] = "running" => now < wdeadline[w]
    /\ now' = now + 1
    /\ UNCHANGED <<nextSweep, crashed, pool, store, queue, resultChan, hpc, hjob, hdeadline,
                   wpc, wjob, wdeadline, inFile, outFile, returned, rmFailed,
                   rejectedFull, lock, dvars>>

Next ==
    \/ Arrives /\ \E j \in Ids, req \in Requests : Reject(j, req)
    \/ Arrives /\ \E j \in Ids, req \in Requests : FailSave(j, req)
    \/ Arrives /\ \E j \in Ids, req \in Requests : Register(j, req)
    \/ Arrives /\ \E j \in Ids, req \in Requests : SaveUpload(j, req)
    \/ \E j \in Ids : RegisterUpload(j)
    \/ \E j \in Ids : Enqueue(j)
    \/ \E j \in Ids : Receive(j)
    \/ \E j \in Ids : Timeout(j)
    \/ \E j \in Ids : Cancel(j)
    \/ \E w \in Workers : Dequeue(w)
    \/ \E w \in Workers : MarkProcessing(w)
    \/ \E w \in Workers : Prepare(w)
    \/ \E w \in Workers : MarkPdfFailed(w)
    \/ \E w \in Workers : Run(w)
    \/ \E w \in Workers : MarkFailed(w)
    \/ \E w \in Workers : MarkDone(w)
    \/ \E w \in Workers : MarkDonePath(w)
    \/ \E w \in Workers : RemoveInput(w)
    \/ SweepLock
    \/ Sweep
    \/ Arrives /\ \E j \in Ids : DownloadLookup(j)
    \/ DownloadServe
    \/ Tick

Spec == Init /\ [][Next]_vars

\* ---- the program under load ----

\* a JSON submission that passes every check of handleConvert
PlainRequest ==
    [method |-> "POST", multipart |-> FALSE, parseOk |-> TRUE, hasFile |-> TRUE,
     save |-> "ok", jsonOk |-> TRUE, from |-> "markdown", to |-> "pdf"]

\* The steps of the program when up to MaxBurst clients submit PlainRequest
\* and stay connected, the file system works, a LaTeX engine is found and no
\* converter ends before the ctx of its conversion expires.  The steps of
\* Next left out are never enabled then.
BurstNext ==
    \/ BurstArrives /\ \E j \in Ids : Register(j, PlainRequest)
    \/ \E j \in Ids : Enqueue(j)
    \/ \E j \in Ids : Receive(j)
    \/ \E j \in Ids : Timeout(j)
    \/ \E w \in Workers : Dequeue(w)
    \/ \E w \in Workers : MarkProcessing(w)
    \/ \E w \in Workers : Prepare(w) /\ wpc'[w] = "running"
    \/ \E w \in Workers : Run(w) /\ now = wdeadline[w]
    \/ \E w \in Workers : MarkFailed(w)
    \/ \E w \in Workers : RemoveInput(w)
    \/ SweepLock
    \/ Sweep
    \/ Tick

BurstSpec == InitPool(NumWorkers) /\ [][BurstNext]_vars

\* the answer of a handleDownload call for job j that runs from the lookup to
\* the response with no other step in between
DownloadResponse(j) ==
    IF store[j] = NoEntry THEN "Job not found"
    ELSE ServeResponse(store[j], outFile)

\* ---- derived sets used by the properties ----
Accepted == {j \in Ids : hpc[j] \in {"waiting", "respDone", "respError",
                                      "respTimeout", "respCancel"}}
GaveUp == {j \in Ids : hpc[j] \in {"respTimeout", "respCancel"}}
InQueue == {queue[i].ID : i \in 1..Len(queue)}
InProcess == {wjob[w].ID : w \in Workers} \ {NoJob.ID}
LastSweep == nextSweep - SweepInterval

\* ======================= properties =======================

\* C1: the status of a job's store entry only ever moves absent -> Queued ->
\* Processing -> Done or Failed; it never goes back, never skips Processing,
\* and a Done or Failed entry changes only by being swept.
C1_Allowed ==
    {<<"absent", StatusQueued>>, <<StatusQueued, StatusProcessing>>,
     <<StatusProcessing, StatusDone>>, <<StatusProcessing, StatusFailed>>}
    \cup {<<st, "absent">> : st \in {StatusQueued, StatusProcessing, StatusDone, StatusFailed}}
    \cup {<<st, st>> : st \in {"absent", StatusQueued, StatusProcessing, StatusDone, StatusFailed}}

C1_StatusSequence ==
    [][\A j \in Ids :
          /\ <<store[j].Status, store'[j].Status>> \in C1_Allowed
          /\ (store[j].Status \in {StatusDone, StatusFailed} /\ store'[j] # NoEntry)
                => \/ store'[j] = store[j]
                   \/ /\ lock # Free /\ store[j].OutputPath = NoPath
                      /\ store'[j] = SetOutputPath(store[j], OutputPathOf([ID |-> j]))]_vars

C1_Witness ==
    /\ \E j \in Ids : j \in returned /\ store[j].Status = StatusDone
    /\ \E j \in Ids : j \in returned /\ store[j].Status = StatusFailed

\* C2 (as claimed): once handleConvert has answered status "done" for a job,
\* a download of that job within the retention window returns the file.
C2_DoneThenDownloadable ==
    \A j \in Ids :
        (hpc[j] = "respDone" /\ store[j] # NoEntry
            /\ now - store[j].CreatedAt <= Retention)
        => DownloadResponse(j) = "file"

\* C3 (as claimed): once processJob has returned for a job, its entry has been
\* moved to Processing and then to Done or Failed (or has been swept since).
C3_ReturnedIsTerminal ==
    \A j \in returned : store[j].Status \in {StatusDone, StatusFailed, "absent"}

\* C4 (as claimed): no worker ever writes the status of a job whose entry is
\* missing, so the process never aborts.
C4_NeverAborts == ~crashed

\* C5: a submission that finds the queue full is answered at once (the enqueue
\* attempt never blocks); its entry stays Queued, untouched by any worker, and
\* does not survive a sweep that runs after its age has passed the retention.
C5_RejectedAbandoned ==
    /\ \A j \in Ids : (hpc[j] = "registered" /\ ~crashed) => ENABLED Enqueue(j)
    /\ \A j \in Ids :
          hpc[j] = "resp503" =>
             \/ store[j] = NoEntry
             \/ /\ store[j].Status = StatusQueued
                /\ store[j].OutputPath = NoPath /\ store[j].Error = ""
                /\ LastSweep - store[j].CreatedAt <= Retention

C5_Witness ==
    \E j \in Ids : hpc[j] = "resp503" /\ store[j] = NoEntry /\ j \notin returned

\* C6 (as claimed): after a queue-full rejection the store has no entry for
\* the request's job id.
C6_NoEntryAfterReject ==
    \A j \in Ids : hpc[j] = "resp503" => store[j] = NoEntry

\* C6 (amended): after a queue-full rejection the job is in no queue, no
\* worker ever gets it, no Result and no output file exist for it; the entry
\* registered before the enqueue attempt is Queued or already swept.
C6_RejectedNeverProcessed ==
    \A j \in Ids :
        hpc[j] = "resp503" =>
           /\ j \notin InQueue /\ j \notin InProcess /\ j \notin returned
           /\ resultChan[j] = <<>>
           /\ OutputPathOf([ID |-> j]) \notin outFile
           /\ store[j].Status \in {StatusQueued, "absent"}

C6_Witness ==
    \E j \in Ids : hpc[j] = "resp503" /\ store[j].Status = StatusQueued

\* C7 (as claimed): in a burst of submissions the queue never holds more
\* than its capacity, a submission is rejected only when it finds the queue
\* full, the accepted jobs are exactly those in the queue plus those the
\* workers dequeued, no worker that holds a job is ever blocked, and no
\* interleaving ends in a panic.
C7_BurstNoPanic ==
    /\ Len(queue) <= QueueCap
    /\ rejectedFull \subseteq {QueueCap}
    /\ Cardinality(Accepted) = Len(queue) + Cardinality(InProcess \cup returned)
    /\ \A w \in Workers :
          (wpc[w] # "idle" /\ ~crashed) =>
             \/ ENABLED (MarkProcessing(w) \/ Prepare(w) \/ MarkPdfFailed(w)
                           \/ Run(w) \/ MarkFailed(w) \/ MarkDone(w) \/ MarkDonePath(w) \/ RemoveInput(w))
             \/ lock # Free /\ ENABLED (Sweep \/ \E v \in Workers : MarkDonePath(v))
    /\ ~crashed

\* C8: when handleConvert gives up (deadline or client cancellation), that
\* step changes nothing but the response: the store, the queue, the result
\* channels and the workers are untouched, and the worker holding the job can
\* still take its next step.
C8_GiveUpOnlyStopsWaiting ==
    /\ [][\A j \in Ids :
            (hpc[j] = "waiting" /\ hpc'[j] \in {"respTimeout", "respCancel"})
            => /\ store' = store /\ queue' = queue /\ resultChan' = resultChan
               /\ wpc' = wpc /\ wjob' = wjob /\ wdeadline' = wdeadline
               /\ crashed' = crashed]_vars
    /\ [](\A w \in Workers :
            (wjob[w].ID \in GaveUp /\ ~crashed) =>
               \/ ENABLED (MarkProcessing(w) \/ Prepare(w) \/ MarkPdfFailed(w)
                             \/ Run(w) \/ MarkFailed(w) \/ MarkDone(w) \/ MarkDonePath(w) \/ RemoveInput(w))
               \/ lock # Free /\ ENABLED (Sweep \/ \E v \in Workers : MarkDonePath(v)))

C8_Witness ==
    \E j \in GaveUp :
        /\ j \in returned /\ store[j].Status = StatusDone
        /\ DownloadResponse(j) = "file"

\* C9: a job's result channel gets exactly one Result per processJob call
\* that returns, a worker about to send always finds room, and a Result that
\* handleConvert has not received stays in the channel.
C9_Delivered(j) ==
    Len(resultChan[j]) + (IF hpc[j] \in {"respDone", "respError"} THEN 1 ELSE 0)

C9_OneResultNeverBlocks ==
    /\ \A w \in Workers :
          wpc[w] \in {"start", "prepare", "running"} => C9_Delivered(wjob[w].ID) = 0
    /\ \A w \in Workers : (wpc[w] = "prepare" /\ ~crashed) => ENABLED Prepare(w)
    /\ \A w \in Workers : (wpc[w] = "running" /\ ~crashed) => ENABLED Run(w)
    /\ \A w \in Workers :
          wpc[w] \in {"pdfFailed", "succeeded", "failed"} => C9_Delivered(wjob[w].ID) = 1
    /\ \A j \in returned : C9_Delivered(j) = 1
    /\ \A j \in returned : j \in GaveUp => Len(resultChan[j]) = 1

C9_Witness ==
    \E j \in GaveUp : j \in returned /\ Len(resultChan[j]) = 1

\* C10 (as claimed): no Done entry is in the store once more than the
\* retention has passed since its creation (the instant at which a sweep is
\* due but has not run yet is not counted).
C10_GoneAfterRetention ==
    \A j \in Ids :
        (store[j].Status = StatusDone /\ now < nextSweep)
            => now - store[j].CreatedAt <= Retention

\* C10 (amended): no Done entry survives a sweep that runs after its age has
\* passed the retention, so none is older than retention plus one sweep
\* interval; once the entry of a finished job is gone, so is its output file,
\* unless the os.Remove of that sweep failed.
C10_GoneAfterSweep ==
    /\ \A j \in Ids :
          store[j].Status = StatusDone =>
             /\ LastSweep - store[j].CreatedAt <= Retention
             /\ now - store[j].CreatedAt <= Retention + SweepInterval
    /\ \A j \in returned :
          (store[j] = NoEntry /\ OutputPathOf([ID |-> j]) \in outFile)
             => OutputPathOf([ID |-> j]) \in rmFailed

C10_Witness ==
    \E j \in returned :
        /\ hpc[j] = "respDone"
        /\ store[j] = NoEntry
        /\ OutputPathOf([ID |-> j]) \notin outFile

\* every Job value that is somewhere in the system: in a handler before the
\* enqueue, in the queue, in a worker
JobsInSystem ==
    ({hjob[j] : j \in Ids} \cup {queue[i] : i \in 1..Len(queue)}
        \cup {wjob[w] : w \in Workers}) \ {NoJob}

\* the answers of handleConvert after which the handler has returned
Responses == {"resp4xx", "resp500", "resp503", "respDone", "respError", "respTimeout", "respCancel"}

\* C11 (as claimed): in every state a job's output file is on disk if and
\* only if the job's entry is Done with a non-empty output path.
C11_FileIffDone ==
    \A j \in Ids :
        (OutputPathOf([ID |-> j]) \in outFile)
            <=> (store[j].Status = StatusDone /\ store[j].OutputPath # NoPath)

\* C12: handleDownload answers "Job not found" exactly when the lookup finds
\* no entry; for the entry it found it answers "Job not complete" exactly
\* when the Status it reads is Queued, Processing or Failed; and it answers
\* with file bytes only when the entry is Done with a non-empty output path,
\* the file is on disk and no conversion of that job is still at work.
C12_DownloadAnswers ==
    [][/\ (dpc # "lookedUp" /\ dvars' # dvars)
            => dpc' = IF store[dj'] = NoEntry THEN "Job not found" ELSE "lookedUp"
       /\ (dpc = "lookedUp" /\ dpc' # "lookedUp")
            => /\ dpc' # "Job not found"
               /\ (dpc' = "Job not complete")
                     <=> (DownloadEntry.Status \in
                             {StatusQueued, StatusProcessing, StatusFailed})
               /\ dpc' = "file"
                     => /\ DownloadEntry.Status = StatusDone
                        /\ DownloadEntry.OutputPath = OutputPathOf([ID |-> dj])
                        /\ DownloadEntry.OutputPath \in outFile
                        /\ \A w \in Workers :
                              wjob[w].ID = dj => wpc[w] \notin {"start", "prepare", "running"}
      ]_vars

C12_Witness ==
    /\ dpc = "Job not complete"
    /\ store[dj].Status = StatusProcessing
    /\ OutputPathOf([ID |-> dj]) \in outFile

\* C13 (as claimed): handleDownload reads the fields of an entry only while
\* no worker holds the write lock to write that entry.
C13_ReadsUnderLock ==
    \A w \in Workers :
        lock = ByWorker(w) => ~(dpc = "lookedUp" /\ dj = wjob[w].ID)

\* C14: a worker that finds no LaTeX engine for a pdf job has sent exactly one
\* Result with the error naming the requirement and has written no output
\* file; its next step is the store update at 695-698, never the converter,
\* and with it the entry is Failed with that error (when the entry has been
\* swept meanwhile the update is the abort of C4 instead).
C14_PdfWithoutEngine ==
    /\ [](\A w \in Workers :
            wpc[w] = "pdfFailed" =>
               /\ wjob[w].ToFmt = "pdf"
               /\ OutputPathOf(wjob[w]) \notin outFile
               /\ \/ resultChan[wjob[w].ID] = <<[Err |-> PdfEngineError, OutputPath |-> NoPath]>>
                  \/ resultChan[wjob[w].ID] = <<>> /\ hpc[wjob[w].ID] = "respError")
    /\ [][\A w \in Workers :
            (wpc[w] = "pdfFailed" /\ wpc'[w] # "pdfFailed")
               => /\ wpc'[w] = "returning"
                  /\ store'[wjob[w].ID].Status = StatusFailed
                  /\ store'[wjob[w].ID].Error = PdfEngineError
                  /\ outFile' = outFile]_vars

C14_Witness ==
    \E j \in returned :
        /\ store[j].Status = StatusFailed
        /\ store[j].Error = PdfEngineError
        /\ hpc[j] = "respError"

\* C15: a request with a client input error is answered 4xx in one step that
\* touches neither the store nor the queue; afterwards no entry, no queued job,
\* no worker and no Result exists for it, and no job in the system has an
\* empty target format.
C15_ClientErrorNoJob ==
    /\ [](\A j \in Ids :
            hpc[j] = "resp4xx" =>
               /\ store[j] = NoEntry
               /\ j \notin InQueue /\ j \notin InProcess /\ j \notin returned
               /\ resultChan[j] = <<>>
               /\ hjob[j] = NoJob)
    /\ [](\A job \in JobsInSystem : job.ToFmt # "")
    /\ [][\A j \in Ids :
            (hpc[j] = "new" /\ hpc'[j] = "resp4xx")
               => /\ store' = store /\ queue' = queue /\ resultChan' = resultChan
                  /\ wpc' = wpc /\ wjob' = wjob]_vars

C15_Witness ==
    \E j \in Ids : hpc[j] = "resp4xx" /\ j \in inFile /\ queue # <<>>

\* C16 (as claimed): no job whose target format is outside the catalog is
\* ever created: none is registered, queued or handed to a worker.
C16_UnknownFormatRejected ==
    \A job \in JobsInSystem : job.ToFmt \in OutputCatalog

\* C18 (as claimed): when processJob has returned for a job, the job's
\* temporary input file no longer exists.
C18_InputRemovedOnReturn ==
    \A j \in returned : j \notin inFile

\* C19: an answer of handleConvert is final; the wait begins at the enqueue
\* with a deadline one CoordTimeout later and never lasts beyond it; the
\* handler answers done (error) only by taking a Result without (with) an
\* error from the job's channel, and "Conversion timeout" only without taking
\* one; at the deadline the timeout answer is enabled.
C19_AnswersOnceInTime ==
    /\ [](\A j \in Ids : hpc[j] = "waiting" => now <= hdeadline[j])
    /\ [](\A j \in Ids :
            (hpc[j] = "waiting" /\ now >= hdeadline[j] /\ ~crashed) => ENABLED Timeout(j))
    /\ [][\A j \in Ids :
            /\ hpc[j] \in Responses => hpc'[j] = hpc[j]
            /\ (hpc[j] # "waiting" /\ hpc'[j] = "waiting")
                  => hdeadline'[j] = now + CoordTimeout
            /\ (hpc[j] = "waiting" /\ hpc'[j] # "waiting")
                  => \/ /\ hpc'[j] = "respDone"
                        /\ resultChan[j] # <<>> /\ Head(resultChan[j]).Err = ""
                        /\ resultChan'[j] = Tail(resultChan[j])
                     \/ /\ hpc'[j] = "respError"
                        /\ resultChan[j] # <<>> /\ Head(resultChan[j]).Err # ""
                        /\ resultChan'[j] = Tail(resultChan[j])
                     \/ /\ hpc'[j] \in {"respTimeout", "respCancel"}
                        /\ resultChan'[j] = resultChan[j]]_vars

C19_Witness ==
    /\ \E j \in Ids : hpc[j] = "respTimeout" /\ resultChan[j] # <<>>
    /\ \E j \in Ids : hpc[j] = "respError"

\* C20 (as claimed): no worker holds the store lock while its converter runs,
\* and the sweeper does not hold it while it has an output file to delete.
C20_LockOnlyAroundMap ==
    /\ \A w \in Workers : lock = ByWorker(w) => wpc[w] # "running"
    /\ lock = BySweep => RemovePaths(now) = {}

\* C21 (as claimed): a worker's deadline is set one ConvDeadline after it
\* takes the job and no later step changes it, whatever the handler of the
\* job does; no conversion runs past its deadline, and a converter still
\* running at the deadline can only fail: its step sends one Result with an
\* error and writes no file; and a worker whose conversion failed leaves
\* that position only by making the entry Failed with an error message.
C21_DeadlineAborts ==
    /\ [](\A w \in Workers : wpc[w] # "idle" => now <= wdeadline[w])
    /\ [](\A w \in Workers : (wpc[w] = "running" /\ ~crashed) => ENABLED Run(w))
    /\ [][\A w \in Workers :
            /\ (wpc[w] = "idle" /\ wpc'[w] # "idle")
                  => wdeadline'[w] = now + ConvDeadline
            /\ (wpc[w] # "idle" /\ wpc'[w] # "idle")
                  => wdeadline'[w] = wdeadline[w]
            /\ (wpc[w] = "running" /\ wpc'[w] # "running" /\ now >= wdeadline[w])
                  => /\ wpc'[w] = "failed"
                     /\ Len(resultChan'[wjob[w].ID]) = Len(resultChan[wjob[w].ID]) + 1
                     /\ resultChan'[wjob[w].ID][Len(resultChan'[wjob[w].ID])].Err # ""
                     /\ outFile' = outFile
            /\ (wpc[w] = "failed" /\ (wpc'[w] # "failed" \/ crashed'))
                  => /\ wpc'[w] = "returning"
                     /\ store'[wjob[w].ID].Status = StatusFailed
                     /\ store'[wjob[w].ID].Error # ""]_vars

\* C22: the step in which cleanupOldJobs deletes and unlocks removes exactly
\* the entries older than the retention, whatever their status, and leaves
\* every other entry as it is; the output file of a removed entry with an
\* output path is gone afterwards unless its os.Remove failed, every other
\* file is as before, and the ticker goes on.
C22_SweepFrame ==
    [][(lock = BySweep /\ lock' = Free) =>
          /\ \A j \in Ids :
                store'[j] = IF store[j] # NoEntry /\ now - store[j].CreatedAt > Retention
                            THEN NoEntry ELSE store[j]
          /\ \A j \in Ids :
                IF /\ store[j] # NoEntry
                   /\ now - store[j].CreatedAt > Retention
                   /\ store[j].OutputPath # NoPath
                THEN \/ store[j].OutputPath \notin outFile'
                     \/ store[j].OutputPath \in outFile \cap rmFailed'
                ELSE (OutputPathOf([ID |-> j]) \in outFile')
                        <=> (OutputPathOf([ID |-> j]) \in outFile)
          /\ nextSweep' = nextSweep + SweepInterval
          /\ crashed' = crashed]_vars

C22_Witness ==
    /\ now = LastSweep
    /\ \E i \in Ids : store[i] = NoEntry /\ OutputPathOf([ID |-> i]) \in rmFailed
    /\ \E j \in Ids : store[j] # NoEntry /\ store[j].CreatedAt < LastSweep

\* C23: the queue never holds more jobs than its capacity; the enqueue
\* attempt of handleConvert is always enabled, and it either appends the job
\* when there is room or leaves the queue alone and answers 503 when the
\* queue is full.
C23_QueueBounded ==
    /\ [](Len(queue) <= QueueCap)
    /\ [](\A j \in Ids : (hpc[j] = "registered" /\ ~crashed) => ENABLED Enqueue(j))
    /\ [][\A j \in Ids :
            (hpc[j] = "registered" /\ hpc'[j] # "registered")
               => \/ /\ Len(queue) < QueueCap
                     /\ queue' = Append(queue, hjob[j])
                     /\ hpc'[j] = "waiting"
                  \/ /\ Len(queue) = QueueCap
                     /\ queue' = queue
                     /\ hpc'[j] = "resp503"]_vars

C23_Witness ==
    /\ Len(queue) = QueueCap
    /\ \E j \in Ids : hpc[j] = "registered"

\* C24 (as claimed): no accepted job whose client stays connected is ever
\* answered "Conversion timeout".
C24_NoTimeoutWhileConnected ==
    \A j \in Ids : hpc[j] # "respTimeout"

\* C24 (amended): while a job is in a worker whose deadline comes before the
\* deadline of the job's waiting handler, the handler's deadline has not come;
\* the timeout answer is given only at the handler's deadline and never for
\* such a job; and the clock does not advance while a waiting handler has a
\* Result in its channel.
C24_ResultIfStartedInTime ==
    /\ [](\A j \in Ids, w \in Workers :
            (hpc[j] = "waiting" /\ wjob[w].ID = j /\ wdeadline[w] < hdeadline[j])
               => now < hdeadline[j])
    /\ [][\A j \in Ids :
            (hpc[j] = "waiting" /\ hpc'[j] = "respTimeout")
               => /\ now >= hdeadline[j]
                  /\ \A w \in Workers : wjob[w].ID = j => wdeadline[w] >= hdeadline[j]]_vars
    /\ [][now' # now
            => \A j \in Ids : ~(hpc[j] = "waiting" /\ resultChan[j] # <<>>)]_vars

C24_Witness ==
    \E j \in returned :
        /\ hpc[j] = "respError"
        /\ store[j].Status = StatusFailed
        /\ store[j].Error = "pandoc failed"
        /\ now = store[j].CreatedAt + ConvDeadline

\* C25 (as claimed): no more entries are Processing than the pool has
\* workers, and each of them belongs to a job a worker holds.
C25_ProcessingBounded ==
    /\ Cardinality({j \in Ids : store[j].Status = StatusProcessing}) <= Cardinality(pool)
    /\ \A j \in Ids : store[j].Status = StatusProcessing => j \in InProcess

\* C26 (as claimed): a job is in at most one place (once in the queue, in
\* one worker, or finished); a worker gets a job only by taking the head off
\* the queue, a job leaves the queue only into exactly one worker, no two
\* workers hold the same job, and a finished job is never queued or
\* processed again; while a job is queued some worker can take it or the
\* holder of a job or of the lock has a step; and no accepted job is left in
\* the queue for good: the process does not end while a job is queued.
C26_DequeuedOnce ==
    /\ [](crashed => queue = <<>>)
    /\ [](/\ Cardinality(InQueue) = Len(queue)
          /\ InQueue \cap InProcess = {}
          /\ InQueue \cap returned = {}
          /\ InProcess \cap returned = {}
          /\ \A v, w \in Workers : (v # w /\ wjob[v] # NoJob) => wjob[v].ID # wjob[w].ID)
    /\ [][\A j \in Ids :
            /\ (j \in InProcess' /\ j \notin InProcess)
                  => /\ queue # <<>> /\ Head(queue).ID = j /\ queue' = Tail(queue)
                     /\ Cardinality({w \in Workers : wjob'[w].ID = j}) = 1
            /\ (j \in InQueue /\ j \notin InQueue') => j \in InProcess'
            /\ (j \in InQueue' /\ j \notin InQueue)
                  => hpc[j] = "registered" /\ hpc'[j] = "waiting"
            /\ j \in returned => (j \in returned' /\ j \notin InProcess' /\ j \notin InQueue')
         ]_vars
    /\ [](( queue # <<>> /\ ~crashed) =>
             \/ \E w \in Workers : ENABLED Dequeue(w)
             \/ \E w \in Workers :
                   ENABLED (MarkProcessing(w) \/ Prepare(w) \/ MarkPdfFailed(w) \/ Run(w)
                              \/ MarkFailed(w) \/ MarkDone(w) \/ MarkDonePath(w) \/ RemoveInput(w))
             \/ ENABLED Sweep)

\* C27 (as claimed): once a request that uploaded a document has been
\* rejected (missing target format, queue full) or has failed while the
\* upload was saved, its temporary file is gone.
C27_UploadRemoved ==
    \A j \in Ids : hpc[j] \in {"resp4xx", "resp500", "resp503"} => j \notin inFile

====
